---- MODULE Spec2Model ----
(***************************************************************************)
(* Model of globmatch's root resolution (src/src/utils.rs, resolve_root)   *)
(* and of Builder::build (src/src/lib.rs), which hands the remainder to    *)
(* the glob compiler.                                                      *)
(*                                                                         *)
(* A path or pattern is a sequence of one-character strings, so that its   *)
(* textual length, its separators and its '.' segments are all visible.    *)
(* Paths follow the Unix rules of std::path.                               *)
(***************************************************************************)
EXTENDS Integers, Sequences, FiniteSets, TLC

VARIABLES prefix, pattern, pc, root, rest, push_root, comps, result, built,
          round, first,
          wpc, call, matchers, mi, start, stack, walked, tested, items,
          paths, filtered, error, rounds,
          hpc, hglob, hpath, hset, hsingle, hmatch, hhidden

\* the variables of resolve_root and build
rvars == <<prefix, pattern, pc, root, rest, push_root, comps, result, built,
           round, first>>

\* the variables of the iterators and of match_paths
wvars == <<wpc, call, matchers, mi, start, stack, walked, tested, items,
           paths, filtered, error, rounds>>

\* the variables of the helpers: build_glob, build_glob_set, is_hidden_*
hvars == <<hpc, hglob, hpath, hset, hsingle, hmatch, hhidden>>

vars == <<rvars, wvars, hvars>>

(***************************************************************************)
(* Bounds                                                                  *)
(***************************************************************************)
\* longest pattern drawn from the alphabet (longer example patterns are added)
MaxLen == 4

(***************************************************************************)
(* The file system the existence checks run against: directories and       *)
(* plain files, each a sequence of names below "/".                        *)
(***************************************************************************)
NameA == <<"a">>
NameB == <<"b">>
NameAB == <<"a", "b">>

\* the tree the walks run over: /r holds a/a0/a0_0.txt, a/a0/a0_1.txt,
\* a/a1/a1_0.txt and .hidden/h.txt; /ab holds x.txt and the unreadable u
NameR == <<"r">>
NameA0 == <<"a", "0">>
NameA1 == <<"a", "1">>
NameA00 == <<"a", "0", "_", "0", ".", "t", "x", "t">>
NameA01 == <<"a", "0", "_", "1", ".", "t", "x", "t">>
NameA10 == <<"a", "1", "_", "0", ".", "t", "x", "t">>
NameHidden == <<".", "h", "i", "d", "d", "e", "n">>
NameH == <<"h", ".", "t", "x", "t">>
NameU == <<"u">>
NameX == <<"x", ".", "t", "x", "t">>
NameY == <<"y", ".", "t", "x", "t">>

Dirs ==
    { <<>>, <<NameA>>, <<NameA, NameB>>, <<NameAB>>,
      <<NameR>>, <<NameR, NameA>>, <<NameR, NameA, NameA0>>, <<NameR, NameA, NameA1>>,
      <<NameR, NameHidden>>, <<NameAB, NameU>> }

Files ==
    { <<NameA, NameB, NameB>>,
      <<NameR, NameA, NameA0, NameA00>>, <<NameR, NameA, NameA0, NameA01>>,
      <<NameR, NameA, NameA1, NameA10>>, <<NameR, NameHidden, NameH>>,
      <<NameAB, NameX>>, <<NameAB, NameU, NameY>> }

\* directories whose listing fails with "permission denied"
Unreadable == { <<NameAB, NameU>> }

Entries == Dirs \cup Files

(***************************************************************************)
(* std::path on Unix: components of a path string.                         *)
(* A component is [kind, s, end]: s is its text (as_os_str) and end the    *)
(* index of its last character in the path string.                         *)
(***************************************************************************)
IsSep(c) == c = "/"

\* Path::has_root / Path::is_absolute (Unix): the string starts with "/"
IsAbsolute(p) == Len(p) > 0 /\ IsSep(p[1])

\* index just past the segment that starts at i (the next separator or Len+1)
RECURSIVE SegEnd(_, _)
SegEnd(p, i) ==
    IF i > Len(p) \/ IsSep(p[i]) THEN i ELSE SegEnd(p, i + 1)

\* one segment as a component: "" and an interior "." are no component
SingleComponent(seg, atStart, e) ==
    IF seg = <<".">>
    THEN IF atStart THEN << [kind |-> "CurDir", s |-> seg, end |-> e] >> ELSE << >>
    ELSE IF seg = <<".", ".">>
         THEN << [kind |-> "ParentDir", s |-> seg, end |-> e] >>
         ELSE << [kind |-> "Normal", s |-> seg, end |-> e] >>

RECURSIVE Body(_, _, _)
Body(p, i, atStart) ==
    IF i > Len(p) THEN << >>
    ELSE IF IsSep(p[i]) THEN Body(p, i + 1, FALSE)
    ELSE LET j == SegEnd(p, i)
         IN  SingleComponent(SubSeq(p, i, j - 1), atStart, j - 1)
                \o Body(p, j, FALSE)

\* Path::components()
Components(p) ==
    IF IsAbsolute(p)
    THEN << [kind |-> "RootDir", s |-> <<"/">>, end |-> 1] >> \o Body(p, 2, FALSE)
    ELSE Body(p, 1, TRUE)

\* the components without their positions: what Path equality compares
Plain(cs) == [i \in 1..Len(cs) |-> [kind |-> cs[i].kind, s |-> cs[i].s]]

\* PartialEq for Path: component-wise equality
PathEq(p, q) == Plain(Components(p)) = Plain(Components(q))

\* PathBuf::push(component)
Push(buf, c) ==
    IF c.kind = "RootDir" THEN c.s
    ELSE IF Len(buf) > 0 /\ ~IsSep(buf[Len(buf)])
         THEN buf \o <<"/">> \o c.s
         ELSE buf \o c.s

\* Path::parent(): the text up to the end of the last-but-one component;
\* "none" for the empty path and for a path that ends in the root
HasParent(p) ==
    LET cs == Components(p)
    IN  Len(cs) > 0 /\ cs[Len(cs)].kind # "RootDir"

Parent(p) ==
    LET cs == Components(p)
    IN  IF Len(cs) = 1 THEN << >> ELSE SubSeq(p, 1, cs[Len(cs) - 1].end)

\* PathBuf::pop(): truncate to the parent, or leave the path alone
Pop(buf) == IF HasParent(buf) THEN Parent(buf) ELSE buf

(***************************************************************************)
(* Path::exists(): the operating system resolves the raw path string,      *)
(* segment by segment, from "/" or from the working directory.             *)
(***************************************************************************)
Up(cur) == IF cur = << >> THEN << >> ELSE SubSeq(cur, 1, Len(cur) - 1)

\* the entry a path string names: [ok, at]
RECURSIVE OsWalk(_, _, _)
OsWalk(p, i, cur) ==
    IF i > Len(p) THEN [ok |-> TRUE, at |-> cur]
    ELSE IF IsSep(p[i])
         THEN IF cur \in Dirs THEN OsWalk(p, i + 1, cur)
              ELSE [ok |-> FALSE, at |-> cur]
    ELSE LET j == SegEnd(p, i)
             seg == SubSeq(p, i, j - 1)
         IN  IF cur \notin Dirs THEN [ok |-> FALSE, at |-> cur]
             ELSE IF seg = <<".">> THEN OsWalk(p, j, cur)
             ELSE IF seg = <<".", ".">> THEN OsWalk(p, j, Up(cur))
             ELSE IF Append(cur, seg) \in Entries
                  THEN OsWalk(p, j, Append(cur, seg))
                  ELSE [ok |-> FALSE, at |-> cur]

\* the working directory, where a relative path starts
Cwd == <<NameR>>

\* the empty path names nothing
OsResolve(p) ==
    IF Len(p) = 0 THEN [ok |-> FALSE, at |-> << >>]
    ELSE IF IsAbsolute(p) THEN OsWalk(p, 1, << >>)
    ELSE OsWalk(p, 1, Cwd)

\* Exists for a system where ".." above "/" names nothing
RECURSIVE StaysBelowRoot(_, _, _)
StaysBelowRoot(cs, i, d) ==
    IF i > Len(cs) THEN TRUE
    ELSE IF cs[i].kind = "ParentDir"
         THEN d > 0 /\ StaysBelowRoot(cs, i + 1, d - 1)
         ELSE IF cs[i].kind = "Normal"
              THEN StaysBelowRoot(cs, i + 1, d + 1)
              ELSE StaysBelowRoot(cs, i + 1, d)

ExistsBelowRoot(p) == OsResolve(p).ok /\ StaysBelowRoot(Components(p), 1, 0)

Exists(p) == OsResolve(p).ok

(***************************************************************************)
(* Inputs                                                                  *)
(***************************************************************************)
Alphabet == {"/", ".", "a", "b"}

Strings(n) == UNION { [1..k -> Alphabet] : k \in 0..n }

\* the patterns of the documentation and of tests::patterns / outside_root
StarTxt == <<"*", ".", "t", "x", "t">>
Up2 == <<".", ".", "/", ".", ".", "/">>

\* missing/../existing
MissingUpExisting == <<"b", "/", ".", ".", "/", "a">>

ExamplePatterns ==
    { StarTxt,
      Up2 \o StarTxt,
      Up2 \o Up2 \o StarTxt,
      <<"/", "a", "/">> \o StarTxt,
      MissingUpExisting }

Patterns == Strings(MaxLen) \cup ExamplePatterns

BaseRoot == <<"/">>
BaseA == <<"/", "a">>
BaseASlash == <<"/", "a", "/">>
BaseAB == <<"/", "a", "/", "b">>
BaseLong == <<"/", "a", "b">>
BaseMissing == <<"/", "b">>
BaseFile == <<"/", "a", "/", "b", "/", "b">>
\* relative to the working directory
BaseRel == <<"a">>

Bases == {BaseRoot, BaseA, BaseASlash, BaseAB, BaseLong, BaseMissing, BaseFile, BaseRel}

(***************************************************************************)
(* resolve_root, one step per statement                                    *)
(***************************************************************************)
NoResult == [kind |-> "none", err |-> "none", root |-> << >>, rest |-> << >>]

Err(e) == [kind |-> "Err", err |-> e, root |-> << >>, rest |-> << >>]

Ok(r, s) == [kind |-> "Ok", err |-> "none", root |-> r, rest |-> s]

Panic == [kind |-> "Panic", err |-> "none", root |-> << >>, rest |-> << >>]

NoMatcher == [kind |-> "none", glob |-> << >>, root |-> << >>, rest |-> << >>]

\* Option<Vec<GlobSet>>, and the predicate handed to filter_entry
NoFilter == [kind |-> "NoFilter", globs |-> << >>, deny |-> {}]
None == [kind |-> "None", globs |-> << >>, deny |-> {}]
Some(gs) == [kind |-> "Some", globs |-> gs, deny |-> {}]
Hidden == [kind |-> "Hidden", globs |-> << >>, deny |-> {}]
Deny(ps) == [kind |-> "Deny", globs |-> << >>, deny |-> ps]

NoCall == [api |-> "none", base |-> << >>, globs |-> << >>, pre |-> None, post |-> None]

\* Result<Glob, String>, Result<GlobSet, String>
NotBuilt == [kind |-> "none", err |-> "none"]
Built == [kind |-> "Ok", err |-> "none"]
Failed(e) == [kind |-> "Err", err |-> e]

\* no helper is called
HelpersIdle ==
    /\ hpc = "idle"
    /\ hglob = << >>
    /\ hpath = << >>
    /\ hset = NotBuilt
    /\ hsingle = NotBuilt
    /\ hmatch = [set |-> FALSE, single |-> FALSE]
    /\ hhidden = [entry |-> FALSE, path |-> FALSE]

Init ==
    /\ prefix \in Bases
    /\ pattern \in Patterns
    /\ pc = "start"
    /\ root = prefix
    /\ rest = << >>
    /\ push_root = TRUE
    /\ comps = << >>
    /\ result = NoResult
    /\ built = NoMatcher
    /\ round = 1
    /\ first = NoResult
    /\ wpc = "idle"
    /\ call = NoCall
    /\ matchers = << >>
    /\ mi = 0
    /\ start = FALSE
    /\ stack = << >>
    /\ walked = << >>
    /\ tested = << >>
    /\ items = << >>
    /\ paths = << >>
    /\ filtered = << >>
    /\ error = << >>
    /\ rounds = 0
    /\ HelpersIdle

\* CheckEmpty with the is_empty() test left out
CheckEmptySkipped ==
    /\ pc = "start"
    /\ result' = result
    /\ pc' = "exists"
    /\ UNCHANGED <<prefix, pattern, root, rest, push_root, comps, built, round, first>>
    /\ UNCHANGED <<wvars, hvars>>

\* if pattern.is_empty() { return Err(InvalidInput) }
CheckEmpty ==
    /\ pc = "start"
    /\ IF Len(pattern) = 0
       THEN /\ result' = Err("InvalidInput")
            /\ pc' = "returned"
       ELSE /\ result' = result
            /\ pc' = "exists"
    /\ UNCHANGED <<prefix, pattern, root, rest, push_root, comps, built, round, first>>
    /\ UNCHANGED <<wvars, hvars>>

\* if !root.as_path().exists() { return Err(NotFound) }
CheckExists ==
    /\ pc = "exists"
    /\ IF ~Exists(root)
       THEN /\ result' = Err("NotFound")
            /\ pc' = "returned"
       ELSE /\ result' = result
            /\ pc' = "absolute"
    /\ UNCHANGED <<prefix, pattern, root, rest, push_root, comps, built, round, first>>
    /\ UNCHANGED <<wvars, hvars>>

\* CheckAbsolute with the is_absolute() test left out
CheckAbsoluteSkipped ==
    /\ pc = "absolute"
    /\ result' = result
    /\ pc' = "loop"
    /\ comps' = Components(pattern)
    /\ UNCHANGED <<prefix, pattern, root, rest, push_root, built, round, first>>
    /\ UNCHANGED <<wvars, hvars>>

\* if Path::new(pattern).is_absolute() { return Err(Unsupported) }
CheckAbsolute ==
    /\ pc = "absolute"
    /\ IF IsAbsolute(pattern)
       THEN /\ result' = Err("Unsupported")
            /\ pc' = "returned"
            /\ comps' = comps
       ELSE /\ result' = result
            /\ pc' = "loop"
            /\ comps' = Components(pattern)
    /\ UNCHANGED <<prefix, pattern, root, rest, push_root, built, round, first>>
    /\ UNCHANGED <<wvars, hvars>>

\* ForEach that goes on testing the components after the first miss
ForEachRetest ==
    /\ pc = "loop"
    /\ comps # << >>
    /\ LET c == Head(comps)
       IN  IF Exists(Push(root, c))
           THEN /\ root' = Push(root, c)
                /\ rest' = rest
                /\ push_root' = push_root
           ELSE /\ root' = Pop(Push(root, c))
                /\ rest' = Push(rest, c)
                /\ push_root' = FALSE
    /\ comps' = Tail(comps)
    /\ UNCHANGED <<prefix, pattern, pc, result, built, round, first>>
    /\ UNCHANGED <<wvars, hvars>>

\* one round of Path::new(pattern).components().for_each(|c| ...)
ForEach ==
    /\ pc = "loop"
    /\ comps # << >>
    /\ LET c == Head(comps)
       IN  IF push_root
           THEN IF ~Exists(Push(root, c))
                THEN /\ root' = Pop(Push(root, c))
                     /\ rest' = Push(rest, c)
                     /\ push_root' = FALSE
                ELSE /\ root' = Push(root, c)
                     /\ rest' = rest
                     /\ push_root' = push_root
           ELSE /\ rest' = Push(rest, c)
                /\ root' = root
                /\ push_root' = push_root
    /\ comps' = Tail(comps)
    /\ UNCHANGED <<prefix, pattern, pc, result, built, round, first>>
    /\ UNCHANGED <<wvars, hvars>>

\* the workaround for a pattern absorbed as a whole:
\* if rest.components().count() == 0 { if let Some(Normal) = root.components().next_back() ... }
Workaround ==
    /\ pc = "loop"
    /\ comps = << >>
    /\ LET rc == Components(root)
       IN  IF Len(Components(rest)) = 0 /\ Len(rc) > 0 /\ rc[Len(rc)].kind = "Normal"
           THEN /\ rest' = Push(rest, rc[Len(rc)])
                /\ root' = Pop(root)
           ELSE /\ rest' = rest
                /\ root' = root
    /\ pc' = "validate"
    /\ UNCHANGED <<prefix, pattern, push_root, comps, result, built, round, first>>
    /\ UNCHANGED <<wvars, hvars>>

HasParentDir(p) == \E i \in 1..Len(Components(p)) : Components(p)[i].kind = "ParentDir"

\* if rest.components().any(|c| matches!(c, ParentDir)) { return Err(InvalidInput) }
Validate ==
    /\ pc = "validate"
    /\ IF HasParentDir(rest)
       THEN /\ result' = Err("InvalidInput")
            /\ pc' = "returned"
       ELSE /\ result' = result
            /\ pc' = "slice"
    /\ UNCHANGED <<prefix, pattern, root, rest, push_root, comps, built, round, first>>
    /\ UNCHANGED <<wvars, hvars>>

\* &pattern[pattern.len() - rest.to_str().unwrap().len()..]: the subtraction is on
\* usize, so a rest longer than the pattern panics (overflow check, or slice range)
SliceStart(pat, r) == Len(pat) - Len(r)

Slice ==
    /\ pc = "slice"
    /\ IF SliceStart(pattern, rest) < 0
       THEN /\ result' = Panic
            /\ pc' = "panic"
       ELSE /\ result' = Ok(root, SubSeq(pattern, SliceStart(pattern, rest) + 1, Len(pattern)))
            /\ pc' = "returned"
    /\ UNCHANGED <<prefix, pattern, root, rest, push_root, comps, built, round, first>>
    /\ UNCHANGED <<wvars, hvars>>

(***************************************************************************)
(* Builder::build: resolve_root(root, self.glob), then glob_for(rest)      *)
(***************************************************************************)
Build ==
    /\ pc = "returned"
    /\ built' = IF result.kind = "Ok"
                THEN [kind |-> "Matcher", glob |-> pattern,
                      root |-> result.root, rest |-> result.rest]
                ELSE [kind |-> "Err", glob |-> pattern, root |-> << >>, rest |-> << >>]
    /\ pc' = "built"
    /\ UNCHANGED <<prefix, pattern, root, rest, push_root, comps, result, round, first>>
    /\ UNCHANGED <<wvars, hvars>>

\* a caller resolves the returned (root, remainder) once more
Again ==
    /\ pc = "built"
    /\ round = 1
    /\ result.kind = "Ok"
    /\ first' = result
    /\ round' = 2
    /\ prefix' = result.root
    /\ pattern' = result.rest
    /\ root' = result.root
    /\ rest' = << >>
    /\ push_root' = TRUE
    /\ comps' = << >>
    /\ result' = NoResult
    /\ built' = NoMatcher
    /\ pc' = "start"
    /\ UNCHANGED <<wvars, hvars>>

Next ==
    \/ CheckEmpty
    \/ CheckExists
    \/ CheckAbsolute
    \/ ForEach
    \/ Workaround
    \/ Validate
    \/ Slice
    \/ Build
    \/ Again

Spec == Init /\ [][Next]_vars

(***************************************************************************)
(* Vocabulary of the properties                                            *)
(***************************************************************************)
Returned == pc \in {"returned", "built"}

Done == pc \in {"returned", "built", "panic"}

\* PathBuf::join, component by component
RECURSIVE PushAll(_, _)
PushAll(buf, cs) ==
    IF cs = << >> THEN buf ELSE PushAll(Push(buf, Head(cs)), Tail(cs))

IsDir(p) == OsResolve(p).ok /\ OsResolve(p).at \in Dirs

\* the pattern text from the first character of its k-th component on
TextFrom(p, k) ==
    LET cs == Components(p)
    IN  IF k > Len(cs) THEN << >>
        ELSE SubSeq(p, cs[k].end - Len(cs[k].s) + 1, Len(p))

\* how many leading components of cs name an existing directory, appended in turn
RECURSIVE LeadDirs(_, _)
LeadDirs(buf, cs) ==
    IF cs = << >> \/ ~IsDir(Push(buf, Head(cs))) THEN 0
    ELSE 1 + LeadDirs(Push(buf, Head(cs)), Tail(cs))

\* how many leading components of cs are ".."
RECURSIVE LeadUps(_)
LeadUps(cs) ==
    IF cs = << >> \/ Head(cs).kind # "ParentDir" THEN 0 ELSE 1 + LeadUps(Tail(cs))

ValidPattern(p) == Len(p) > 0 /\ ~IsAbsolute(p) /\ ~HasParentDir(p)

IsPrefixOf(s, t) == Len(s) <= Len(t) /\ SubSeq(t, 1, Len(s)) = s

(***************************************************************************)
(* C1..C10: root resolution                                                *)
(***************************************************************************)

\* C1: on success the returned remainder, read as path components, is exactly
\* the components the resolver left out of the root (its rest path), for every
\* pattern, also with a trailing separator, repeated separators or a '.' segment.
C1_RemainderIsUnabsorbed ==
    (Returned /\ result.kind = "Ok")
        => Plain(Components(result.rest)) = Plain(Components(rest))

\* C2: resolve_root and Builder::build never panic: the slice index
\* pattern.len() - rest.len() is never negative.
C2_NeverPanics == pc # "panic" /\ result.kind # "Panic"

\* C3: a successful resolve_root never returns an empty remainder, and
\* Builder::build never hands an empty pattern to the glob compiler.
C3_RemainderNonEmpty ==
    /\ result.kind = "Ok" => Len(result.rest) > 0
    /\ built.kind = "Matcher" => Len(built.rest) > 0

\* C4: for an existing base and a valid pattern with no leading relative segment
\* (its first component is a name, taken here in the reading most favourable to
\* the code: a name that does not exist under base), the result is root = base
\* and remainder = pattern, unchanged.
C4_PlainPatternUnchanged ==
    (/\ Returned
     /\ Exists(prefix)
     /\ ValidPattern(pattern)
     /\ Components(pattern) # << >>
     /\ Components(pattern)[1].kind = "Normal"
     /\ ~Exists(Push(prefix, Components(pattern)[1])))
        => /\ result.kind = "Ok"
           /\ PathEq(result.root, prefix)
           /\ result.rest = pattern

\* C5: when the first k >= 1 components of the pattern name existing directories
\* in turn (and the next one names nothing), a successful result has root = base
\* joined with those k components and remainder = the original text of the
\* pattern from its (k+1)-th component on.
C5_LeadingDirsAbsorbed ==
    LET cs == Components(pattern)
        k == LeadDirs(prefix, cs)
    IN  (/\ Returned
         /\ result.kind = "Ok"
         /\ k >= 1
         /\ k < Len(cs)
         /\ ~Exists(PushAll(prefix, SubSeq(cs, 1, k + 1))))
            => /\ PathEq(result.root, PushAll(prefix, SubSeq(cs, 1, k)))
               /\ result.rest = TextFrom(pattern, k + 1)

\* C6: resolving the returned (root, remainder) again gives the same Ok result.
C6_Idempotent ==
    (round = 2 /\ Done)
        => /\ result.kind = "Ok"
           /\ PathEq(result.root, first.root)
           /\ result.rest = first.rest

\* C7 as claimed: base /a/b and pattern ../../../../*.txt resolve to root "/" and
\* remainder *.txt.
C7_RootIsSlash ==
    (Done /\ round = 1 /\ prefix = BaseAB /\ pattern = Up2 \o Up2 \o StarTxt)
        => /\ result.kind = "Ok"
           /\ PathEq(result.root, BaseRoot)
           /\ result.rest = StarTxt

\* C7 amended: more leading '..' than base is deep never fails: every leading
\* '..' is kept on the root side, none reaches the remainder, and for base /a/b
\* and ../../../../*.txt the root is the text /a/b/../../../.., which names the
\* directory "/", and the remainder is *.txt.
C7_OverlongParentsAbsorbed ==
    LET cs == Components(pattern)
        ups == SubSeq(cs, 1, LeadUps(cs))
    IN  /\ (/\ Done
            /\ IsDir(prefix)
            /\ ~IsAbsolute(pattern)
            /\ LeadUps(cs) > Len(OsResolve(prefix).at)
            /\ ~HasParentDir(TextFrom(pattern, LeadUps(cs) + 1)))
               => /\ result.kind = "Ok"
                  /\ IsPrefixOf(Plain(Components(PushAll(prefix, ups))),
                                Plain(Components(result.root)))
                  /\ ~HasParentDir(rest)
        /\ (Done /\ round = 1 /\ prefix = BaseAB /\ pattern = Up2 \o Up2 \o StarTxt)
               => /\ result.kind = "Ok"
                  /\ result.root = BaseAB \o <<"/", ".", ".", "/", ".", ".">>
                                          \o <<"/", ".", ".", "/", ".", ".">>
                  /\ OsResolve(result.root) = [ok |-> TRUE, at |-> << >>]
                  /\ result.rest = StarTxt

C7_Witness ==
    /\ pc = "built"
    /\ round = 1
    /\ prefix = BaseAB
    /\ pattern = Up2 \o Up2 \o StarTxt
    /\ built.kind = "Matcher"
    /\ built.rest = StarTxt

\* C8: the returned root is the base path with the absorbed leading components
\* of the pattern appended, '..' kept as written (no canonicalization).
C8_RootIsBasePlusAbsorbed ==
    (Returned /\ result.kind = "Ok")
        => \E k \in 0..Len(Components(pattern)) :
              PathEq(result.root, PushAll(prefix, SubSeq(Components(pattern), 1, k)))

\* C9: a remainder with a '..' component makes resolve_root fail with
\* InvalidInput, and no successful result has '..' in its remainder.
C9_NoParentDirInRemainder ==
    Returned
        => /\ HasParentDir(rest) => result = Err("InvalidInput")
           /\ result.kind = "Ok" => ~HasParentDir(result.rest)

\* C10 as claimed: an absolute pattern fails with Unsupported whatever the base
\* is, also for a base that does not exist.
C10_AbsoluteAlwaysUnsupported ==
    (Done /\ IsAbsolute(pattern)) => result = Err("Unsupported")

\* C10 amended: an absolute pattern fails with Unsupported for every base that
\* exists; for a base that does not exist the call fails with NotFound.
C10_AbsoluteUnsupportedIfBaseExists ==
    (Done /\ IsAbsolute(pattern))
        => result = IF Exists(prefix) THEN Err("Unsupported") ELSE Err("NotFound")

C10_Witness ==
    /\ pc = "built"
    /\ IsAbsolute(pattern)
    /\ Exists(prefix)
    /\ result = Err("Unsupported")
    /\ built.kind = "Err"

(***************************************************************************)
(* C11: the empty pattern                                                  *)
(***************************************************************************)

\* C11: the empty pattern makes resolve_root fail with InvalidInput whatever the
\* base is, also for a base that does not exist (the test comes first).
C11_EmptyIsInvalidInput ==
    (Done /\ Len(pattern) = 0) => result = Err("InvalidInput")

C11_Witness ==
    /\ pc = "built"
    /\ round = 1
    /\ Len(pattern) = 0
    /\ ~Exists(prefix)
    /\ result = Err("InvalidInput")
    /\ built.kind = "Err"

(***************************************************************************)
(* resolve_root and Builder::build as functions of (base, pattern), for    *)
(* the matchers that are walked below.                                     *)
(***************************************************************************)
RECURSIVE ResolveLoop(_, _, _, _)
ResolveLoop(rt, rs, pushing, cs) ==
    IF cs = << >> THEN [root |-> rt, rest |-> rs]
    ELSE LET c == Head(cs)
         IN  IF pushing
             THEN IF ~Exists(Push(rt, c))
                  THEN ResolveLoop(Pop(Push(rt, c)), Push(rs, c), FALSE, Tail(cs))
                  ELSE ResolveLoop(Push(rt, c), rs, TRUE, Tail(cs))
             ELSE ResolveLoop(rt, Push(rs, c), FALSE, Tail(cs))

ResolveWorkaround(l) ==
    LET rc == Components(l.root)
    IN  IF Len(Components(l.rest)) = 0 /\ Len(rc) > 0 /\ rc[Len(rc)].kind = "Normal"
        THEN [root |-> Pop(l.root), rest |-> Push(l.rest, rc[Len(rc)])]
        ELSE l

ResolveRoot(base, pat) ==
    IF Len(pat) = 0 THEN Err("InvalidInput")
    ELSE IF ~Exists(base) THEN Err("NotFound")
    ELSE IF IsAbsolute(pat) THEN Err("Unsupported")
    ELSE LET w == ResolveWorkaround(ResolveLoop(base, << >>, TRUE, Components(pat)))
         IN  IF HasParentDir(w.rest) THEN Err("InvalidInput")
             ELSE IF SliceStart(pat, w.rest) < 0 THEN Panic
             ELSE Ok(w.root, SubSeq(pat, SliceStart(pat, w.rest) + 1, Len(pat)))

\* the function agrees with the step-by-step resolve_root above
ResolveRootAgrees == Done => result = ResolveRoot(prefix, pattern)

\* glob_for(rest): globset turns down a character class that is not closed
GlobCompiles(g) ==
    \A i \in 1..Len(g) : g[i] = "[" => \E j \in (i + 1)..Len(g) : g[j] = "]"

\* Builder::build(root): the Matcher, or the error
BuildMatcher(base, glob) ==
    LET r == ResolveRoot(base, glob)
    IN  IF r.kind = "Ok"
        THEN IF GlobCompiles(r.rest)
             THEN [kind |-> "Matcher", glob |-> glob, root |-> r.root, rest |-> r.rest,
                   err |-> "none"]
             ELSE [kind |-> "Err", glob |-> glob, root |-> << >>, rest |-> << >>,
                   err |-> "UnclosedClass"]
        ELSE [kind |-> r.kind, glob |-> glob, root |-> << >>, rest |-> << >>,
              err |-> r.err]

(***************************************************************************)
(* globset, as far as the globs used here go: literal characters, '?',     *)
(* '*' (never crosses a separator: literal_separator(true)) and a leading  *)
(* recursive prefix.                                                       *)
(***************************************************************************)
IsRecPrefix(g) ==
    \/ g = <<"*", "*">>
    \/ Len(g) >= 3 /\ SubSeq(g, 1, 3) = <<"*", "*", "/">>

RECURSIVE PlainTokens(_, _)
PlainTokens(g, i) ==
    IF i > Len(g) THEN << >>
    ELSE << (IF g[i] = "*" THEN [t |-> "ZeroOrMore", c |-> "*"]
             ELSE IF g[i] = "?" THEN [t |-> "Any", c |-> "?"]
             ELSE [t |-> "Literal", c |-> g[i]]) >> \o PlainTokens(g, i + 1)

Tokens(g) ==
    IF IsRecPrefix(g)
    THEN << [t |-> "RecursivePrefix", c |-> "*"] >> \o PlainTokens(g, 4)
    ELSE PlainTokens(g, 1)

\* the regex of the tokens, matched against s from position j
RECURSIVE MatchFrom(_, _, _, _)
MatchFrom(ts, i, s, j) ==
    IF i > Len(ts) THEN j > Len(s)
    ELSE IF ts[i].t = "Literal"
         THEN j <= Len(s) /\ s[j] = ts[i].c /\ MatchFrom(ts, i + 1, s, j + 1)
    ELSE IF ts[i].t = "Any"
         THEN j <= Len(s) /\ ~IsSep(s[j]) /\ MatchFrom(ts, i + 1, s, j + 1)
    ELSE IF ts[i].t = "ZeroOrMore"
         THEN \/ MatchFrom(ts, i + 1, s, j)
              \/ j <= Len(s) /\ ~IsSep(s[j]) /\ MatchFrom(ts, i, s, j + 1)
    ELSE \* RecursivePrefix: (?:/?|.*/)
         \/ MatchFrom(ts, i + 1, s, j)
         \/ \E k \in j..Len(s) : IsSep(s[k]) /\ MatchFrom(ts, i + 1, s, k + 1)

\* GlobMatcher::is_match(path)
GlobIsMatch(g, s) == MatchFrom(Tokens(g), 1, s, 1)

\* Builder::build_glob_set: the set [pattern, **/pattern]; GlobSet::is_match
GlobSetIsMatch(g, s) ==
    GlobIsMatch(g, s) \/ GlobIsMatch(<<"*", "*", "/">> \o g, s)

(***************************************************************************)
(* Path helpers of the iterators                                           *)
(***************************************************************************)
\* Path::file_name().unwrap_or_else(|| path.as_os_str())
FileNameOrPath(p) ==
    LET cs == Components(p)
    IN  IF Len(cs) > 0 /\ cs[Len(cs)].kind = "Normal" THEN cs[Len(cs)].s ELSE p

\* the dot is looked for at the start of the whole path, not of its last name
is_hidden_whole(p) == Len(p) > 0 /\ p[1] = "."

\* utils::is_hidden_entry
is_hidden_entry(p) ==
    LET n == FileNameOrPath(p) IN Len(n) > 0 /\ n[1] = "."

\* Path::starts_with(base): component-wise prefix
StartsWith(p, base) ==
    LET cs == Plain(Components(p))
        bs == Plain(Components(base))
    IN  Len(bs) <= Len(cs) /\ SubSeq(cs, 1, Len(bs)) = bs

\* Path::strip_prefix(base).ok(): the text of the components left over
StripPrefix(p, base) ==
    LET cs == Components(p)
        k == Len(Components(base))
    IN  IF Len(cs) = k THEN << >>
        ELSE SubSeq(p, cs[k + 1].end - Len(cs[k + 1].s) + 1, cs[Len(cs)].end)

\* byte order of the characters in use
Ascii ==
    << "*", ".", "/", "0", "1", "?", "_", "a", "b", "d", "e", "h", "i", "n",
       "r", "t", "u", "x", "y" >>

Code(c) == CHOOSE i \in 1..Len(Ascii) : Ascii[i] = c

RECURSIVE BytesLess(_, _, _)
BytesLess(s, t, i) ==
    IF i > Len(t) THEN FALSE
    ELSE IF i > Len(s) THEN TRUE
    ELSE IF s[i] = t[i] THEN BytesLess(s, t, i + 1)
    ELSE Code(s[i]) < Code(t[i])

KindRank(k) ==
    IF k = "RootDir" THEN 1 ELSE IF k = "CurDir" THEN 2
    ELSE IF k = "ParentDir" THEN 3 ELSE 4

\* Ord for path::Component
CompLess(c, d) ==
    \/ KindRank(c.kind) < KindRank(d.kind)
    \/ c.kind = d.kind /\ c.kind = "Normal" /\ BytesLess(c.s, d.s, 1)

RECURSIVE CompsLess(_, _, _)
CompsLess(cs, ds, i) ==
    IF i > Len(ds) THEN FALSE
    ELSE IF i > Len(cs) THEN TRUE
    ELSE IF Plain(cs)[i] = Plain(ds)[i] THEN CompsLess(cs, ds, i + 1)
    ELSE CompLess(cs[i], ds[i])

\* Ord for PathBuf: the components, compared lexicographically
PathLess(p, q) == CompsLess(Components(p), Components(q), 1)

(***************************************************************************)
(* walkdir: the root entry first, then the entries of each directory in    *)
(* the order read_dir hands them out (any order), depth first; a child's   *)
(* path is the directory's path joined with the entry's name.              *)
(***************************************************************************)
Range(v) == { v[i] : i \in 1..Len(v) }

Children(node) ==
    { e \in Entries : Len(e) = Len(node) + 1 /\ SubSeq(e, 1, Len(node)) = node }

\* the absolute, resolved spelling of an entry
RECURSIVE Canonical(_)
Canonical(node) ==
    IF node = << >> THEN <<"/">>
    ELSE IF Len(node) = 1 THEN <<"/">> \o node[1]
    ELSE Canonical(SubSeq(node, 1, Len(node) - 1)) \o <<"/">> \o node[Len(node)]

\* a child reported under its resolved path, not under the path walked
JoinCanonical(dir, name) == Canonical(Append(OsResolve(dir).at, name))

\* DirEntry::from_entry: read_dir's entry path, dir.join(name)
Join(dir, name) == Push(dir, [kind |-> "Normal", s |-> name])

\* DirEntry::is_dir (no symbolic links in the tree)
IsDirEntry(p) == OsResolve(p).at \in Dirs

\* IntoIter::push: the opened listing of a directory, or the error of read_dir
Frame(p) ==
    LET n == OsResolve(p).at
    IN  [dir |-> p,
         pending |-> IF n \in Unreadable THEN {} ELSE { e[Len(e)] : e \in Children(n) },
         err |-> n \in Unreadable]

\* a listing that has nothing left stays on top of the stack
TrimNever(st) == st

\* IntoIter::pop for every listing that has nothing left
RECURSIVE Trim(_)
Trim(st) ==
    IF st = << >> THEN st
    ELSE IF st[Len(st)].pending = {} /\ ~st[Len(st)].err
         THEN Trim(SubSeq(st, 1, Len(st) - 1))
         ELSE st

\* a predicate that keeps every entry
PredicateAll(pre, p) == TRUE

\* a supplied pre_filter that leaves the rule for hidden entries in force
PredicateHiddenToo(pre, p) ==
    IF pre.kind = "NoFilter" THEN TRUE
    ELSE IF pre.kind = "Some"
         THEN /\ ~\E i \in 1..Len(pre.globs) : GlobSetIsMatch(pre.globs[i], p)
              /\ ~is_hidden_entry(p)
    ELSE IF pre.kind = "Deny" THEN p \notin pre.deny
    ELSE ~is_hidden_entry(p)

\* the predicate of filter_entry, called with the entry's path
Predicate(pre, p) ==
    IF pre.kind = "NoFilter" THEN TRUE
    ELSE IF pre.kind = "Some"
         THEN ~\E i \in 1..Len(pre.globs) : GlobSetIsMatch(pre.globs[i], p)
    ELSE IF pre.kind = "Deny" THEN p \notin pre.deny
    ELSE ~is_hidden_entry(p)

\* a directory is listed although the predicate turned it down
DescendAlways(keep, p) == IsDirEntry(p)

\* handle_entry pushes the listing of a directory; FilterEntry::next drops it
\* again (skip_current_dir) when the predicate turns the directory down
Descend(keep, p) == keep /\ IsDirEntry(p)

\* every entry is taken for a match
MatchAll(m, p) == TRUE

\* match_next, Ok(dir): strip the root, ask the matcher
match_next(m, p) ==
    StartsWith(p, m.root) /\ GlobIsMatch(m.rest, StripPrefix(p, m.root))

\* no path is turned down after the match
PostNone(post, p) == FALSE

\* the filter after the match: does a glob set of filter_post match the path
PostFilter(post, p) ==
    post.kind = "Some" /\ \E i \in 1..Len(post.globs) : GlobSetIsMatch(post.globs[i], p)

\* the smallest paths first, kept with their duplicates
RECURSIVE SortOnly(_)
SortOnly(v) ==
    IF v = << >> THEN { << >> }
    ELSE LET mins == { i \in 1..Len(v) : \A j \in 1..Len(v) : ~PathLess(v[j], v[i]) }
             m == CHOOSE i \in mins : TRUE
         IN  { SelectSeq(v, LAMBDA x : ~PathLess(v[m], x)) \o t :
                 t \in SortOnly(SelectSeq(v, LAMBDA x : PathLess(v[m], x))) }

\* sort_unstable() then dedup(): the results it can have, one path of every
\* group of equal paths (which one is up to the sort)
RECURSIVE SortDedup(_)
SortDedup(v) ==
    IF v = << >> THEN { << >> }
    ELSE LET mins == { i \in 1..Len(v) : \A j \in 1..Len(v) : ~PathLess(v[j], v[i]) }
             m == CHOOSE i \in mins : TRUE
         IN  UNION { { <<v[i]>> \o t :
                         t \in SortDedup(SelectSeq(v, LAMBDA x : PathLess(v[m], x))) } :
                     i \in mins }

(***************************************************************************)
(* The calls that are walked                                               *)
(***************************************************************************)
BaseR == <<"/", "r">>
BaseDot == <<".">>
BaseRA == <<"/", "r", "/", "a">>
BaseHidden == <<"/", "r", "/">> \o NameHidden

GlobAllTxt == <<"*", "*", "/">> \o StarTxt
GlobStar == <<"*">>
GlobTxt == StarTxt
GlobA0 == NameA0 \o <<"/">> \o StarTxt
GlobAA0 == <<"a", "/">> \o GlobA0
GlobDetour == <<".", ".", "/">> \o GlobAA0
GlobDotAA0 == <<".", "/">> \o GlobAA0
GlobUpStar == <<".", ".", "/", "*">>
GlobDotStar == <<".", "*">>
GlobZero == <<"*", "_", "0", ".", "t", "x", "t">>
GlobAbsolute == <<"/", "*">>
GlobOpenClass == <<"[", "a">>
GlobCurDir == <<".">>
GlobRA0 == <<"r", "/", "a", "/">> \o NameA0 \o <<"/", "*">>

GlobLists ==
    [ b \in {BaseR, BaseDot, BaseRA, BaseLong, BaseHidden} |->
        IF b = BaseR
        THEN { << >>, <<GlobAllTxt>>, <<GlobAA0>>, <<GlobStar>>,
               <<GlobAllTxt, GlobAA0>>, <<GlobAA0, GlobAllTxt>>, <<GlobAllTxt, << >> >>,
               <<GlobAA0, GlobDotAA0>>, <<GlobDotAA0, GlobAA0>>,
               <<GlobAbsolute, GlobAllTxt, << >>, GlobOpenClass>> }
        ELSE IF b = BaseRA
        THEN { <<GlobA0>>, <<GlobDetour>>, <<GlobUpStar>>, <<GlobA0, GlobA0>>,
               <<GlobA0, GlobDetour>>, <<GlobDetour, GlobA0>>,
               <<GlobStar, GlobA0>>, <<GlobA0, GlobStar>> }
        ELSE IF b = BaseLong
        THEN { <<GlobAllTxt>>, <<GlobStar>>, <<GlobStar, GlobAllTxt>>,
               <<GlobStar, GlobCurDir>>, <<GlobAbsolute, GlobCurDir>> }
        ELSE IF b = BaseDot
        THEN { <<GlobAllTxt>>, <<GlobStar>> }
        ELSE { <<GlobTxt>> } ]

PreFilters == { None, Some(<< >>), Some(<<GlobDotStar>>), Some(<<NameA0>>) }

PostFilters ==
    { None, Some(<< >>), Some(<<GlobZero>>), Some(<<NameA1, GlobDotStar>>), Some(<<GlobRA0>>) }

Predicates ==
    { NoFilter, Hidden, Deny({BaseRA \o <<"/">> \o NameA0}), Deny({BaseLong \o <<"/">> \o NameX}) }

\* match_paths(build_matchers(globs, base), pre, post)
MatchCalls ==
    { [api |-> "match_paths", base |-> b, globs |-> gs, pre |-> f, post |-> g] :
        b \in DOMAIN GlobLists, gs \in UNION { GlobLists[c] : c \in DOMAIN GlobLists },
        f \in PreFilters, g \in PostFilters }

\* Builder::new(glob).build(base).into_iter(), with or without filter_entry
IterCalls ==
    { [api |-> "iter", base |-> b, globs |-> gs, pre |-> f, post |-> None] :
        b \in DOMAIN GlobLists, gs \in UNION { GlobLists[c] : c \in DOMAIN GlobLists },
        f \in Predicates }

Calls ==
    { c \in MatchCalls \cup IterCalls :
        /\ c.globs \in GlobLists[c.base]
        /\ c.api = "iter" => Len(c.globs) = 1 }

InitWalk ==
    /\ prefix = << >>
    /\ pattern = << >>
    /\ pc = "idle"
    /\ root = << >>
    /\ rest = << >>
    /\ push_root = FALSE
    /\ comps = << >>
    /\ result = NoResult
    /\ built = NoMatcher
    /\ round = 0
    /\ first = NoResult
    /\ wpc = "build"
    /\ call \in Calls
    /\ matchers = << >>
    /\ mi = 0
    /\ start = FALSE
    /\ stack = << >>
    /\ walked = << >>
    /\ tested = << >>
    /\ items = << >>
    /\ paths = << >>
    /\ filtered = << >>
    /\ error = << >>
    /\ rounds = 0
    /\ HelpersIdle

(***************************************************************************)
(* build_matchers / Builder::build, then Matcher::into_iter                *)
(***************************************************************************)
\* extract_patterns: the errors of the candidates that failed, in their order
ExtractFailures(ms) ==
    LET failed == SelectSeq(ms, LAMBDA m : m.kind = "Err")
    IN  [i \in 1..Len(failed) |-> failed[i].err]

BuildMatchers ==
    /\ wpc = "build"
    /\ LET ms == [i \in 1..Len(call.globs) |-> BuildMatcher(call.base, call.globs[i])]
       IN  IF \E i \in 1..Len(ms) : ms[i].kind = "Panic"
           THEN /\ wpc' = "panic"
                /\ UNCHANGED <<matchers, mi, start, error>>
           ELSE IF ExtractFailures(ms) # << >>
           THEN /\ wpc' = "failed"
                /\ error' = ExtractFailures(ms)
                /\ UNCHANGED <<matchers, mi, start>>
           ELSE /\ matchers' = ms
                /\ wpc' = "walk"
                /\ mi' = IF Len(ms) > 0 THEN 1 ELSE 0
                /\ start' = (Len(ms) > 0)
                /\ error' = error
    /\ UNCHANGED <<call, stack, walked, tested, items, paths, filtered, rounds>>
    /\ UNCHANGED <<rvars, hvars>>

\* an entry of the walk goes through the predicate, then through match_next;
\* match_paths sends a yielded path through the filter after the match
Deliver(p, below) ==
    LET m == matchers[mi]
        keep == Predicate(call.pre, p)
        hit == keep /\ match_next(m, p)
        out == hit /\ call.api = "match_paths"
    IN  /\ tested' = IF call.pre.kind = "NoFilter" THEN tested
                     ELSE Append(tested, [m |-> mi, path |-> p, keep |-> keep])
        /\ walked' = IF keep THEN Append(walked, [m |-> mi, kind |-> "Ok", path |-> p])
                     ELSE walked
        /\ stack' = Trim(IF Descend(keep, p) THEN Append(below, Frame(p)) ELSE below)
        /\ items' = IF hit THEN Append(items, [m |-> mi, kind |-> "Ok", path |-> p])
                    ELSE items
        /\ paths' = IF out /\ ~PostFilter(call.post, p) THEN Append(paths, p) ELSE paths
        /\ filtered' = IF out /\ PostFilter(call.post, p) THEN Append(filtered, p)
                       ELSE filtered

\* the first next() of a walk: the root entry itself, or the error of its stat
NextRoot ==
    /\ wpc = "walk"
    /\ start
    /\ start' = FALSE
    /\ IF Exists(matchers[mi].root)
       THEN Deliver(matchers[mi].root, << >>)
       ELSE /\ walked' = Append(walked, [m |-> mi, kind |-> "Err", path |-> matchers[mi].root])
            /\ items' = Append(items, [m |-> mi, kind |-> "Err", path |-> matchers[mi].root])
            /\ UNCHANGED <<stack, tested, paths, filtered>>
    /\ UNCHANGED <<wpc, call, matchers, mi>>
    /\ rounds' = rounds + 1
    /\ UNCHANGED <<rvars, hvars, error>>

\* a next() that finds an entry left in the listing on top
NextEntry ==
    /\ wpc = "walk"
    /\ ~start
    /\ stack # << >>
    /\ ~stack[Len(stack)].err
    /\ \E n \in stack[Len(stack)].pending :
         Deliver(Join(stack[Len(stack)].dir, n),
                 [stack EXCEPT ![Len(stack)].pending = @ \ {n}])
    /\ UNCHANGED <<wpc, call, matchers, mi, start>>
    /\ rounds' = rounds + 1
    /\ UNCHANGED <<rvars, hvars, error>>

\* the walk ends with its first error
NextErrorEnds ==
    /\ wpc = "walk"
    /\ ~start
    /\ stack # << >>
    /\ stack[Len(stack)].err
    /\ walked' = Append(walked, [m |-> mi, kind |-> "Err", path |-> stack[Len(stack)].dir])
    /\ items' = Append(items, [m |-> mi, kind |-> "Err", path |-> stack[Len(stack)].dir])
    /\ stack' = << >>
    /\ UNCHANGED <<wpc, call, matchers, mi, start, tested, paths, filtered>>
    /\ rounds' = rounds + 1
    /\ UNCHANGED <<rvars, hvars, error>>

\* a next() that finds the error of read_dir on top: Some(Err(err.into()));
\* match_paths drops it (flatten)
NextError ==
    /\ wpc = "walk"
    /\ ~start
    /\ stack # << >>
    /\ stack[Len(stack)].err
    /\ walked' = Append(walked, [m |-> mi, kind |-> "Err", path |-> stack[Len(stack)].dir])
    /\ items' = Append(items, [m |-> mi, kind |-> "Err", path |-> stack[Len(stack)].dir])
    /\ stack' = Trim([stack EXCEPT ![Len(stack)].err = FALSE])
    /\ UNCHANGED <<wpc, call, matchers, mi, start, tested, paths, filtered>>
    /\ rounds' = rounds + 1
    /\ UNCHANGED <<rvars, hvars, error>>

\* a next() on the exhausted walk: None
NextNone ==
    /\ wpc = "walk"
    /\ call.api = "iter"
    /\ ~start
    /\ stack = << >>
    /\ items' = Append(items, [m |-> mi, kind |-> "None", path |-> << >>])
    /\ wpc' = "done"
    /\ UNCHANGED <<call, matchers, mi, start, stack, walked, tested, paths, filtered>>
    /\ rounds' = rounds + 1
    /\ UNCHANGED <<rvars, hvars, error>>

\* flat_map: the walk of one matcher is exhausted, the next matcher is walked
NextMatcher ==
    /\ wpc = "walk"
    /\ call.api = "match_paths"
    /\ ~start
    /\ stack = << >>
    /\ mi < Len(matchers)
    /\ mi' = mi + 1
    /\ start' = TRUE
    /\ UNCHANGED <<wpc, call, matchers, stack, walked, tested, items, paths, filtered>>
    /\ rounds' = rounds + 1
    /\ UNCHANGED <<rvars, hvars, error>>

\* match_paths returns what it collected, as it was pushed
CollectUnsorted ==
    /\ wpc = "walk"
    /\ call.api = "match_paths"
    /\ ~start
    /\ stack = << >>
    /\ mi >= Len(matchers)
    /\ wpc' = "done"
    /\ UNCHANGED <<call, matchers, mi, start, stack, walked, tested, items, paths, filtered>>
    /\ rounds' = rounds + 1
    /\ UNCHANGED <<rvars, hvars, error>>

\* the last walk is exhausted: sort_unstable() and dedup() of both collections
Collect ==
    /\ wpc = "walk"
    /\ call.api = "match_paths"
    /\ ~start
    /\ stack = << >>
    /\ mi >= Len(matchers)
    /\ paths' \in SortDedup(paths)
    /\ filtered' \in SortDedup(filtered)
    /\ wpc' = "done"
    /\ UNCHANGED <<call, matchers, mi, start, stack, walked, tested, items>>
    /\ rounds' = rounds + 1
    /\ UNCHANGED <<rvars, hvars, error>>

NextWalk ==
    \/ BuildMatchers
    \/ NextRoot
    \/ NextEntry
    \/ NextError
    \/ NextNone
    \/ NextMatcher
    \/ Collect

SpecWalk == InitWalk /\ [][NextWalk]_vars

(***************************************************************************)
(* Vocabulary of the statements about the walks                            *)
(***************************************************************************)
WalkDone == wpc = "done"

\* the entries a walk from p hands on: p unless the predicate turns it down,
\* and then what lies in it, unless its listing cannot be read
RECURSIVE Reach(_, _)
Reach(pre, p) ==
    IF ~Predicate(pre, p) THEN {}
    ELSE {p} \cup
         IF OsResolve(p).at \in Dirs \ Unreadable
         THEN UNION { Reach(pre, Join(p, e[Len(e)])) : e \in Children(OsResolve(p).at) }
         ELSE {}

\* the entry, relative to the root of its matcher, is matched by the remainder
Matches(w) ==
    /\ w.kind = "Ok"
    /\ StartsWith(w.path, matchers[w.m].root)
    /\ GlobIsMatch(matchers[w.m].rest, StripPrefix(w.path, matchers[w.m].root))

\* q lies below p: p is a proper component-wise prefix of q
Below(q, p) == StartsWith(q, p) /\ ~PathEq(q, p)

OkPaths(v, m) == { v[i].path : i \in { j \in 1..Len(v) : v[j].kind = "Ok" /\ v[j].m = m } }

(***************************************************************************)
(* C12: the root is a prefix of everything walked                          *)
(***************************************************************************)
\* C12: every path an iterator yields as Ok, every entry the walk hands on and
\* every path the predicate is asked about starts, component by component,
\* with the resolved root of its matcher.
C12_RootIsPrefix ==
    /\ \A i \in 1..Len(items) :
         items[i].kind = "Ok" => StartsWith(items[i].path, matchers[items[i].m].root)
    /\ \A i \in 1..Len(walked) :
         walked[i].kind = "Ok" => StartsWith(walked[i].path, matchers[walked[i].m].root)
    /\ \A i \in 1..Len(tested) : StartsWith(tested[i].path, matchers[tested[i].m].root)

C12_Witness ==
    /\ WalkDone
    /\ call.api = "iter"
    /\ call.globs = <<GlobDetour>>
    /\ HasParentDir(matchers[1].root)
    /\ Len(walked) = 3
    /\ \E i \in 1..Len(items) : items[i].kind = "Ok" /\ Below(items[i].path, matchers[1].root)

(***************************************************************************)
(* C13: what IterAll yields                                                *)
(***************************************************************************)
\* C13: the Ok items are exactly the entries of the walk whose root-relative
\* path the remainder matcher matches: each once, under its full path, in the
\* order of the walk; an entry that does not match is passed over and the
\* walk goes on to the end of the tree.
C13_OkItemsAreMatchingEntries ==
    /\ SelectSeq(items, LAMBDA x : x.kind = "Ok") = SelectSeq(walked, Matches)
    /\ \A i, j \in 1..Len(walked) : walked[i] = walked[j] => i = j
    /\ (WalkDone /\ call.api = "iter")
         => OkPaths(walked, 1) = Reach(call.pre, matchers[1].root)

C13_Witness ==
    /\ WalkDone
    /\ call.api = "iter"
    /\ call.pre = NoFilter
    /\ call.base = BaseR
    /\ call.globs = <<GlobAllTxt>>
    /\ Len(walked) = 9
    /\ Len(items) = 5
    /\ \E i \in 1..Len(walked) : ~Matches(walked[i]) /\ Matches(walked[Len(walked)])

(***************************************************************************)
(* C14: an error of the walk                                               *)
(***************************************************************************)
\* C14: every error of the walk is yielded as one Err item at its place among
\* the matching entries, the matching entries after it are still yielded, and
\* None is returned only when the walk has nothing left.
C14_ErrorDoesNotEndIteration ==
    /\ SelectSeq(items, LAMBDA x : x.kind # "None")
         = SelectSeq(walked, LAMBDA w : w.kind = "Err" \/ Matches(w))
    /\ \A i \in 1..Len(items) :
         items[i].kind = "None"
           => /\ i = Len(items)
              /\ stack = << >>
              /\ ~start
              /\ Reach(call.pre, matchers[1].root) \subseteq OkPaths(walked, 1)

C14_Witness ==
    /\ WalkDone
    /\ call.api = "iter"
    /\ call.base = BaseLong
    /\ Len(items) = 3
    /\ items[1].kind = "Err"
    /\ items[2].kind = "Ok"
    /\ items[3].kind = "None"

(***************************************************************************)
(* C15: filter_entry                                                       *)
(***************************************************************************)
\* C15: an entry the predicate turns down is not yielded, and nothing below
\* it is handed on by the walk, shown to the predicate or yielded; the
\* predicate is asked about the full path of the entry, which starts with the root.
C15_FilteredSubtreeSkipped ==
    \A i \in 1..Len(tested) :
        /\ StartsWith(tested[i].path, matchers[tested[i].m].root)
        /\ Exists(tested[i].path)
        /\ ~tested[i].keep =>
             /\ \A j \in 1..Len(items) :
                  (items[j].kind = "Ok" /\ items[j].m = tested[i].m)
                    => ~StartsWith(items[j].path, tested[i].path)
             /\ \A j \in 1..Len(walked) :
                  walked[j].m = tested[i].m => ~StartsWith(walked[j].path, tested[i].path)
             /\ \A j \in 1..Len(tested) :
                  tested[j].m = tested[i].m => ~Below(tested[j].path, tested[i].path)

C15_Witness ==
    /\ WalkDone
    /\ call.api = "iter"
    /\ call.pre.kind = "Deny"
    /\ call.base = BaseR
    /\ call.globs = <<GlobAllTxt>>
    /\ \E i \in 1..Len(tested) : ~tested[i].keep /\ IsDirEntry(tested[i].path)
    /\ \E j \in 1..Len(items) : items[j].kind = "Ok"

(***************************************************************************)
(* Vocabulary of the statements about match_paths                          *)
(***************************************************************************)
MatchPathsDone == wpc = "done" /\ call.api = "match_paths"

DotName(n) == Len(n) > 0 /\ n[1] = "."

Outputs == Range(paths) \cup Range(filtered)

\* a glob set of the filter after the match matches the path
PostHit(p) ==
    /\ call.post.kind = "Some"
    /\ \E i \in 1..Len(call.post.globs) :
         \/ GlobIsMatch(call.post.globs[i], p)
         \/ GlobIsMatch(<<"*", "*", "/">> \o call.post.globs[i], p)

\* the paths the matchers yielded as Ok
Yielded == { items[i].path : i \in { j \in 1..Len(items) : items[j].kind = "Ok" } }

\* what the walk of a matcher yields, whatever order the walk takes
Yields(m) ==
    IF Exists(m.root)
    THEN { p \in Reach(call.pre, m.root) : GlobIsMatch(m.rest, StripPrefix(p, m.root)) }
    ELSE {}

\* what a set of matchers yields
AllYields(ms) == UNION { Yields(m) : m \in ms }

\* v holds the paths of S, up to the equality of paths
SamePaths(v, S) ==
    /\ \A i \in 1..Len(v) : \E q \in S : PathEq(v[i], q)
    /\ \A q \in S : \E i \in 1..Len(v) : PathEq(v[i], q)

\* sorted, and no two neighbours equal
StrictlySorted(v) == \A i, j \in 1..Len(v) : i < j => PathLess(v[i], v[j])

ThreeFiles ==
    { <<NameR, NameA, NameA0, NameA00>>, <<NameR, NameA, NameA0, NameA01>>,
      <<NameR, NameA, NameA1, NameA10>> }

(***************************************************************************)
(* C16: the default filter before the match                                *)
(***************************************************************************)
\* C16, as stated: with no pre_filter, no path of either collection has a
\* final component that starts with '.', nor a directory above it whose name
\* starts with '.'.
C16_NoDotComponent ==
    (MatchPathsDone /\ call.pre = None) =>
        \A p \in Outputs :
            LET cs == Components(p)
            IN  /\ ~DotName(cs[Len(cs)].s)
                /\ \A i \in 1..(Len(cs) - 1) : cs[i].kind = "Normal" => ~DotName(cs[i].s)

\* C16, for names only: with no pre_filter, no path of either collection ends
\* in a file or directory name that starts with '.', none has a name that
\* starts with '.' between the resolved root and its end, and the predicate
\* is never asked about an entry below such a directory (they are pruned in
\* the walk).
C16_HiddenNamesPruned ==
    (call.api = "match_paths" /\ call.pre = None) =>
        /\ \A p \in Outputs :
             /\ Components(p)[Len(Components(p))].kind = "Normal"
                  => ~DotName(Components(p)[Len(Components(p))].s)
             /\ \E i \in 1..Len(matchers) :
                  /\ StartsWith(p, matchers[i].root)
                  /\ \A k \in 1..Len(Components(StripPrefix(p, matchers[i].root))) :
                       ~DotName(Components(StripPrefix(p, matchers[i].root))[k].s)
        /\ \A i \in 1..Len(tested) :
             LET rel == Components(StripPrefix(tested[i].path, matchers[tested[i].m].root))
             IN  \A k \in 1..(Len(rel) - 1) : ~DotName(rel[k].s)

C16_Witness ==
    /\ MatchPathsDone
    /\ call.pre = None
    /\ call.base = BaseR
    /\ call.globs = <<GlobAllTxt>>
    /\ Cardinality(Outputs) = 3
    /\ \E i \in 1..Len(tested) : ~tested[i].keep /\ DotName(FileNameOrPath(tested[i].path))

(***************************************************************************)
(* C17: the example tree                                                   *)
(***************************************************************************)
\* C17: for a root that holds a/a0/a0_0.txt, a/a0/a0_1.txt, a/a1/a1_0.txt and
\* .hidden/h.txt, the pattern **/*.txt with no pre_filter and no post_filter
\* returns exactly the three files that are not hidden, however the root is spelled.
C17_ExampleThreeFiles ==
    ( /\ MatchPathsDone
      /\ OsResolve(call.base).at = <<NameR>>
      /\ call.globs = <<GlobAllTxt>>
      /\ call.pre = None
      /\ call.post = None )
    => /\ Len(paths) = 3
       /\ { OsResolve(paths[i]).at : i \in 1..Len(paths) } = ThreeFiles
       /\ filtered = << >>

C19_OrderIndependent ==
    MatchPathsDone =>
        /\ StrictlySorted(paths)
        /\ SamePaths(paths, { p \in AllYields(Range(matchers)) : ~PostHit(p) })
        /\ StrictlySorted(filtered)
        /\ SamePaths(filtered, { p \in AllYields(Range(matchers)) : PostHit(p) })

C19_Witness ==
    /\ MatchPathsDone
    /\ call.globs = <<GlobAllTxt, GlobAA0>>
    /\ call.pre = None
    /\ call.post = None
    /\ Len(items) = 5
    /\ Len(paths) = 3
    /\ items[1].path # paths[1]

(***************************************************************************)
(* C20: a path matched twice                                               *)
(***************************************************************************)
\* C20, as stated: no two elements of the accepted name the same file,
\* however the roots of the matchers spell the way to it.
C20_SameFileOnce ==
    MatchPathsDone =>
        \A i, j \in 1..Len(paths) :
            OsResolve(paths[i]).at = OsResolve(paths[j]).at => i = j

\* C20, amended: a path that two matchers both yield, spelled alike up to the
\* equality of paths (component by component, '..' is not resolved), is in
\* the accepted once; both collections are sorted with no two equal
\* neighbours. The same file reached through a '..' detour is another path.
C20_EqualPathsOnce ==
    MatchPathsDone =>
        /\ StrictlySorted(paths)
        /\ StrictlySorted(filtered)
        /\ \A i, j \in 1..Len(items) :
             ( /\ items[i].kind = "Ok"
               /\ items[j].kind = "Ok"
               /\ items[i].m # items[j].m
               /\ PathEq(items[i].path, items[j].path)
               /\ ~PostHit(items[i].path)
               /\ ~PostHit(items[j].path) )
             => Cardinality({ k \in 1..Len(paths) : PathEq(paths[k], items[i].path) }) = 1

C20_Witness ==
    /\ MatchPathsDone
    /\ call.globs = <<GlobAA0, GlobDotAA0>>
    /\ call.pre = None
    /\ call.post = None
    /\ Len(items) = 4
    /\ Len(paths) = 2
    /\ items[1].path # items[3].path
    /\ PathEq(items[1].path, items[3].path) \/ PathEq(items[1].path, items[4].path)

(***************************************************************************)
(* C21: build_matchers                                                     *)
(***************************************************************************)
\* the candidates of build_matchers, one per pattern
Candidates == [i \in 1..Len(call.globs) |-> BuildMatcher(call.base, call.globs[i])]

\* the candidates that are no Matcher, in input order
Failing == SelectSeq(Candidates, LAMBDA m : m.kind # "Matcher")

\* C21: build_matchers returns Ok exactly when every pattern builds, with one
\* Matcher per pattern in input order; when a pattern fails it returns one Err
\* that holds the error of every failing pattern, in input order, and no Matcher.
C21_AllOrNothing ==
    (wpc # "build" /\ call.api = "match_paths") =>
        IF Failing = << >>
        THEN /\ wpc \in {"walk", "done"}
             /\ matchers = Candidates
             /\ \A i \in 1..Len(call.globs) : matchers[i].glob = call.globs[i]
             /\ error = << >>
        ELSE /\ wpc = "failed"
             /\ matchers = << >>
             /\ Len(error) = Len(Failing)
             /\ \A k \in 1..Len(Failing) : error[k] = Failing[k].err

(***************************************************************************)
(* The helpers: Builder::build_glob, Builder::build_glob_set,              *)
(* is_hidden_entry and is_hidden_path, applied to a pattern and a path.    *)
(***************************************************************************)
\* utils::is_hidden_path: components().find(|c| c starts with '.')
is_hidden_path(p) ==
    \E i \in 1..Len(Components(p)) :
        Len(Components(p)[i].s) > 0 /\ Components(p)[i].s[1] = "."

\* Builder::build_glob
build_glob(g) ==
    IF Len(g) = 0 THEN Failed("Empty glob")
    ELSE IF ~GlobCompiles(g) THEN Failed("UnclosedClass")
    ELSE Built

\* build_glob_set with the test for an absolute pattern left out
build_glob_set_any(g) == build_glob(g)

\* Builder::build_glob_set
build_glob_set(g) ==
    IF Len(g) = 0 THEN Failed("Empty glob")
    ELSE IF IsAbsolute(g) THEN Failed("is an absolute path")
    ELSE IF ~GlobCompiles(g) THEN Failed("UnclosedClass")
    ELSE Built

GlobOne == <<"a">>
GlobAny == <<"?">>
GlobInDir == <<"a", "/", "*">>
GlobRooted == <<"/", "a">>

HelperGlobs ==
    { << >>, GlobOne, GlobAny, GlobStar, GlobDotStar, GlobInDir, GlobRooted, GlobOpenClass }

HelperPaths ==
    Strings(MaxLen) \cup
    { BaseRA \o <<"/", ".", ".">>, BaseHidden \o <<"/">> \o NameH, BaseRA \o <<"/", ".">> }

InitHelpers ==
    /\ prefix = << >>
    /\ pattern = << >>
    /\ pc = "idle"
    /\ root = << >>
    /\ rest = << >>
    /\ push_root = FALSE
    /\ comps = << >>
    /\ result = NoResult
    /\ built = NoMatcher
    /\ round = 0
    /\ first = NoResult
    /\ wpc = "idle"
    /\ call = NoCall
    /\ matchers = << >>
    /\ mi = 0
    /\ start = FALSE
    /\ stack = << >>
    /\ walked = << >>
    /\ tested = << >>
    /\ items = << >>
    /\ paths = << >>
    /\ filtered = << >>
    /\ error = << >>
    /\ rounds = 0
    /\ hpc = "start"
    /\ hglob \in HelperGlobs
    /\ hpath \in HelperPaths
    /\ hset = NotBuilt
    /\ hsingle = NotBuilt
    /\ hmatch = [set |-> FALSE, single |-> FALSE]
    /\ hhidden = [entry |-> FALSE, path |-> FALSE]

\* Builder::new(glob).build_glob_set() and Builder::new(glob).build_glob()
BuildGlobs ==
    /\ hpc = "start"
    /\ hset' = build_glob_set(hglob)
    /\ hsingle' = build_glob(hglob)
    /\ hpc' = "built"
    /\ UNCHANGED <<hglob, hpath, hmatch, hhidden>>
    /\ UNCHANGED <<rvars, wvars>>

\* GlobSet::is_match(path), Glob::is_match(path) of what was built
IsMatch ==
    /\ hpc = "built"
    /\ hmatch' = [set |-> hset.kind = "Ok" /\ GlobSetIsMatch(hglob, hpath),
                  single |-> hsingle.kind = "Ok" /\ GlobIsMatch(hglob, hpath)]
    /\ hpc' = "matched"
    /\ UNCHANGED <<hglob, hpath, hset, hsingle, hhidden>>
    /\ UNCHANGED <<rvars, wvars>>

\* is_hidden_entry(path), is_hidden_path(path)
IsHidden ==
    /\ hpc = "matched"
    /\ hhidden' = [entry |-> is_hidden_entry(hpath), path |-> is_hidden_path(hpath)]
    /\ hpc' = "done"
    /\ UNCHANGED <<hglob, hpath, hset, hsingle, hmatch>>
    /\ UNCHANGED <<rvars, wvars>>

NextHelpers ==
    \/ BuildGlobs
    \/ IsMatch
    \/ IsHidden

SpecHelpers == InitHelpers /\ [][NextHelpers]_vars

HelpersDone == hpc = "done"

(***************************************************************************)
(* C22: what build_glob_set and build_glob turn down                       *)
(***************************************************************************)
\* C22, as stated: build_glob_set fails for an empty and for an absolute
\* pattern and builds a set for every other pattern, which matches a path
\* exactly when the pattern or **/pattern matches it; build_glob fails for an
\* empty pattern and takes an absolute one.
C22_ErrOnlyEmptyOrAbsolute ==
    HelpersDone =>
        /\ hset.kind = "Err" <=> (Len(hglob) = 0 \/ IsAbsolute(hglob))
        /\ hset.kind = "Ok" =>
             (hmatch.set <=> ( \/ GlobIsMatch(hglob, hpath)
                               \/ GlobIsMatch(<<"*", "*", "/">> \o hglob, hpath) ))
        /\ Len(hglob) = 0 => hsingle.kind = "Err"
        /\ (IsAbsolute(hglob) /\ GlobCompiles(hglob)) => hsingle.kind = "Ok"

\* C22, amended: build_glob_set fails for an empty pattern, for an absolute
\* pattern and for a pattern globset cannot compile, and for no other; the
\* set it builds matches a path exactly when the pattern or **/pattern
\* matches it; build_glob fails for an empty pattern and for one that does
\* not compile, and takes an absolute pattern.
C22_GlobSetErrors ==
    HelpersDone =>
        /\ hset.kind = "Err"
             <=> (Len(hglob) = 0 \/ IsAbsolute(hglob) \/ ~GlobCompiles(hglob))
        /\ hset.kind = "Ok" =>
             (hmatch.set <=> ( \/ GlobIsMatch(hglob, hpath)
                               \/ GlobIsMatch(<<"*", "*", "/">> \o hglob, hpath) ))
        /\ hsingle.kind = "Err" <=> (Len(hglob) = 0 \/ ~GlobCompiles(hglob))
        /\ hsingle.kind = "Ok" => (hmatch.single <=> GlobIsMatch(hglob, hpath))

C22_Witness ==
    /\ HelpersDone
    /\ hglob = GlobRooted
    /\ hpath = GlobRooted
    /\ hset.kind = "Err"
    /\ hsingle.kind = "Ok"
    /\ hmatch.single
    /\ ~hmatch.set

(***************************************************************************)
(* C23: is_hidden_entry and is_hidden_path                                 *)
(***************************************************************************)
\* C23: is_hidden_entry is true exactly when the last component of the path
\* starts with '.', and is_hidden_path exactly when some component does, for
\* every path, also one that ends in '..' or '.', and for '.' itself.
C23_HiddenByComponents ==
    HelpersDone =>
        LET cs == Components(hpath)
        IN  /\ hhidden.entry <=> (Len(cs) > 0 /\ DotName(cs[Len(cs)].s))
            /\ hhidden.path <=> \E i \in 1..Len(cs) : DotName(cs[i].s)

(***************************************************************************)
(* C24: the absorbed components are a leading run                          *)
(***************************************************************************)
\* how many leading components of cs name an existing path, appended in turn
RECURSIVE LeadExisting(_, _)
LeadExisting(buf, cs) ==
    IF cs = << >> \/ ~Exists(Push(buf, Head(cs))) THEN 0
    ELSE 1 + LeadExisting(Push(buf, Head(cs)), Tail(cs))

\* C24: the components absorbed into the root are a leading run of the
\* pattern's components: once a component's tentative path does not exist,
\* every later component goes to the remainder and the root stays as it is,
\* also when appending the component would name an existing path; a '..'
\* after the first miss therefore ends in InvalidInput.
C24_AbsorbedRunIsLeading ==
    /\ [][ (pc = "loop" /\ ~push_root /\ comps # << >>)
             => (root' = root /\ ~push_root' /\ rest' = Push(rest, Head(comps))) ]_vars
    /\ [](pc = "loop" =>
            LET cs == Components(pattern)
                n == Len(cs) - Len(comps)
                k == LeadExisting(prefix, cs)
            IN  IF n <= k
                THEN /\ push_root
                     /\ root = PushAll(prefix, SubSeq(cs, 1, n))
                     /\ rest = << >>
                ELSE /\ ~push_root
                     /\ root = Pop(PushAll(prefix, SubSeq(cs, 1, k + 1)))
                     /\ rest = PushAll(<< >>, SubSeq(cs, k + 1, n)))
    /\ []( ( /\ Done
             /\ Len(pattern) > 0
             /\ Exists(prefix)
             /\ ~IsAbsolute(pattern)
             /\ \E j \in 1..Len(Components(pattern)) :
                  /\ j > LeadExisting(prefix, Components(pattern)) + 1
                  /\ Components(pattern)[j].kind = "ParentDir" )
           => result = Err("InvalidInput") )

C24_Witness ==
    /\ pc = "built"
    /\ prefix = BaseRoot
    /\ pattern = MissingUpExisting
    /\ Exists(Push(Push(prefix, Components(pattern)[2]), Components(pattern)[3]))
    /\ root = BaseRoot
    /\ rest = MissingUpExisting
    /\ result = Err("InvalidInput")

(***************************************************************************)
(* C25: a pre_filter that is supplied                                      *)
(***************************************************************************)
\* a glob set of the pre_filter matches the path
PreHit(p) ==
    \E i \in 1..Len(call.pre.globs) :
        \/ GlobIsMatch(call.pre.globs[i], p)
        \/ GlobIsMatch(<<"*", "*", "/">> \o call.pre.globs[i], p)

TestedPaths(m) == { tested[i].path : i \in { j \in 1..Len(tested) : tested[j].m = m } }

\* C25: with a pre_filter supplied an entry is pruned exactly when a glob set
\* of the pre_filter matches it, whether hidden or not: the root and every
\* entry of a directory that was kept are put to the filter, what it keeps
\* is walked; an empty pre_filter keeps everything, hidden entries and what
\* lies below them included.
C25_SuppliedPreFilterDecides ==
    (call.api = "match_paths" /\ call.pre.kind = "Some") =>
        /\ \A i \in 1..Len(tested) : tested[i].keep <=> ~PreHit(tested[i].path)
        /\ \A i \in 1..Len(tested) :
             tested[i].keep <=> (tested[i].path \in OkPaths(walked, tested[i].m))
        /\ MatchPathsDone =>
             \A m \in 1..Len(matchers) :
                 /\ matchers[m].root \in TestedPaths(m)
                 /\ \A p \in OkPaths(walked, m) :
                      OsResolve(p).at \in Dirs \ Unreadable =>
                          \A e \in Children(OsResolve(p).at) :
                              Push(p, [kind |-> "Normal", s |-> e[Len(e)]]) \in TestedPaths(m)
                 /\ call.pre.globs = << >> =>
                      { OsResolve(p).at : p \in OkPaths(walked, m) }
                        = { e \in Entries :
                              LET r == OsResolve(matchers[m].root).at
                              IN  /\ Len(e) >= Len(r)
                                  /\ SubSeq(e, 1, Len(r)) = r
                                  /\ \A k \in Len(r)..(Len(e) - 1) :
                                       SubSeq(e, 1, k) \notin Unreadable }

C25_Witness ==
    /\ MatchPathsDone
    /\ call.pre = Some(<< >>)
    /\ call.post = None
    /\ call.base = BaseR
    /\ call.globs = <<GlobAllTxt>>
    /\ Len(paths) = 4
    /\ \E i \in 1..Len(paths) : OsResolve(paths[i]).at = <<NameR, NameHidden, NameH>>
    /\ \E i \in 1..Len(tested) : tested[i].keep /\ DotName(FileNameOrPath(tested[i].path))

(***************************************************************************)
(* C26: pruning hidden entries against filtering hidden paths              *)
(***************************************************************************)
RECURSIVE JoinAll(_, _)
JoinAll(p, names) ==
    IF names = << >> THEN p ELSE JoinAll(Join(p, names[1]), Tail(names))

\* the paths IterAll yields for the matcher when nothing is pruned: the root
\* and every entry below it that a readable listing shows, if matched
YieldsUnpruned(m) ==
    LET r == OsResolve(m.root).at
        below == { e \in Entries :
                     /\ Len(e) >= Len(r)
                     /\ SubSeq(e, 1, Len(r)) = r
                     /\ \A k \in Len(r)..(Len(e) - 1) : SubSeq(e, 1, k) \notin Unreadable }
        all == { JoinAll(m.root, SubSeq(e, Len(r) + 1, Len(e))) : e \in below }
    IN  { q \in all : GlobIsMatch(m.rest, StripPrefix(q, m.root)) }

\* C26: for a matcher whose root has no component starting with '.',
\* filter_entry(|p| !is_hidden_entry(p)) yields as Ok exactly the paths that
\* IterAll yields without pruning and is_hidden_path turns down for none of.
C26_PruneEqualsFilter ==
    (WalkDone /\ call.api = "iter" /\ call.pre = Hidden
              /\ ~is_hidden_path(matchers[1].root))
        => OkPaths(items, 1)
             = { q \in YieldsUnpruned(matchers[1]) : ~is_hidden_path(q) }

C26_Witness ==
    /\ WalkDone
    /\ call.api = "iter"
    /\ call.pre = Hidden
    /\ call.base = BaseR
    /\ call.globs = <<GlobAllTxt>>
    /\ ~is_hidden_path(matchers[1].root)
    /\ Cardinality(OkPaths(items, 1)) = 3
    /\ Cardinality(YieldsUnpruned(matchers[1])) = 4
    /\ \E i \in 1..Len(tested) : ~tested[i].keep /\ IsDirEntry(tested[i].path)

(***************************************************************************)
(* C27: the root that is returned exists                                   *)
(***************************************************************************)
\* C27: whenever resolve_root returns Ok(root, remainder) the root names an
\* existing path, also after the workaround has popped one component.
C27_RootExists ==
    result.kind = "Ok" => Exists(result.root)

(***************************************************************************)
(* C28: the iteration ends                                                 *)
(***************************************************************************)
\* walkdir has an entry, an error or its end to hand out
CanStep ==
    \/ start
    \/ stack = << >>
    \/ stack[Len(stack)].err
    \/ stack[Len(stack)].pending # {}

\* a round: the loop of next(), or the collecting of match_paths, calls next()
\* of the walk once more; the steps of NextWalk after BuildMatchers, by their
\* guards and the count of the rounds
Round ==
    /\ wpc = "walk"
    /\ CanStep
    /\ rounds' = rounds + 1

\* the iterator is driven until it returns None and match_paths runs to its
\* return: no round waits for anything
SpecWalkFair == SpecWalk /\ WF_rounds(Round)

\* entries and errors the walk has handed to next() or to the predicate
Consumed == Len(walked) + Len(SelectSeq(tested, LAMBDA t : ~t.keep))

\* C28: every round of the skip loop of next() consumes one entry of the walk,
\* a walk over the finite tree runs out after finitely many rounds, and the
\* iterator then returns None: no run of entries that do not match or cannot
\* be stripped keeps next() from returning.
C28_IterationEnds ==
    /\ [][wpc = "walk" => Round]_vars
    /\ [][(wpc = "walk" /\ wpc' = "walk" /\ mi' = mi) => Consumed' = Consumed + 1]_vars
    /\ [](Consumed <= Len(matchers) * (Cardinality(Entries) + Cardinality(Unreadable)))
    /\ (wpc = "walk") ~> (wpc = "done")
    /\ []((WalkDone /\ call.api = "iter")
            => /\ items[Len(items)].kind = "None"
               /\ \A i \in 1..(Len(items) - 1) : items[i].kind # "None")

C28_Witness ==
    /\ WalkDone
    /\ call.api = "iter"
    /\ items[Len(items)].kind = "None"
    /\ rounds = Len(walked) + 1
    /\ \E i \in 1..(Len(walked) - 5) :
         /\ Matches(walked[i])
         /\ \A j \in (i + 1)..Len(walked) : ~Matches(walked[j])

====
